---- MODULE Spec2Model ----
(***************************************************************************)
(* Luna Massage e-mail service: the POST /send-confirmation and GET /test  *)
(* handlers, sendEmailWithRetry and the error mapping of the retrying      *)
(* server (src/unnamed/part_000), and the handlers of the earlier server   *)
(* without retry (src/server.js).                                          *)
(*                                                                         *)
(* Text is a tuple of one-character strings, so that the regular           *)
(* expression test and String.prototype.includes are computed, not         *)
(* assumed.  Times are milliseconds, as in the source.                     *)
(*                                                                         *)
(* Modelling decisions:                                                    *)
(*  - req.body is an object (express.json() has run); booking is absent    *)
(*    or an object; booking.email is absent or a string.                   *)
(*  - the transport rejects with an object; its message and code fields    *)
(*    are each present or absent.                                          *)
(*  - the template choice (status === 'confirmed') and the log lines do    *)
(*    not influence control flow and are left out.                         *)
(***************************************************************************)
EXTENDS Integers, Sequences, FiniteSets, TLC

VARIABLES
    build,        \* which server file runs: "part_000" or "server.js"
    mode,         \* "main": require.main === module, startServer() has run;
                  \* "imported": the module was require()d, startServer never runs
    envSet,       \* process.env.EMAIL_USER and EMAIL_APP_PASSWORD are set
    runtime,      \* what the installed express and node do with a rejected
                  \* promise of an async route handler: "forwarded" to the error
                  \* handling middleware, left "unhandled" with a warning, or
                  \* "fatal" (the unhandled rejection ends the process)
    transporter,  \* the module-level handle: 0 = undefined, k = k-th created handle
    initCount,    \* number of nodemailer.createTransport calls so far
    req           \* per request slot: the handler's local state

vars == <<build, mode, envSet, runtime, transporter, initCount, req>>

----------------------------------------------------------------------------
(* Bounds of the model *)
MaxEmailLen == 5
MaxAttempts == 3
MaxMessageId == 2
FastSend == 1000
NumReqs == 2

(* Program constants *)
RequestTimeout == 45000
connectionTimeout == 30000
socketTimeout == 60000
BackoffUnit == 1000
PostMaxRetries == 2
TestMaxRetries == 1

Off == 0 - 1

----------------------------------------------------------------------------
(* Text *)
Chars == {"a", "@", ".", " "}

\* every string of k characters
Strings(k) == [1..k -> Chars]

\* s.includes(sub)
Includes(s, sub) ==
    \E i \in 0..(Len(s) - Len(sub)) : \A k \in 1..Len(sub) : s[i + k] = sub[k]

\* the character class [^\s@]
NotSpaceOrAt(c) == c # " " /\ c # "@"

\* /^[^\s@]+@[^\s@]+\.[^\s@]+$/.test(s): some "@" at i and some "." at j split s
\* into three non-empty runs of [^\s@]
EmailRegexTest(s) ==
    \E i \in 1..Len(s), j \in 1..Len(s) :
        /\ 1 < i /\ i + 1 < j /\ j < Len(s)
        /\ s[i] = "@" /\ s[j] = "."
        /\ \A k \in 1..Len(s) : k # i => NotSpaceOrAt(s[k])

----------------------------------------------------------------------------
(* Request bodies *)
NoBooking == [hasBooking |-> FALSE, hasEmail |-> FALSE, email |-> <<>>]
NoEmail == [hasBooking |-> TRUE, hasEmail |-> FALSE, email |-> <<>>]
WithEmail(e) == [hasBooking |-> TRUE, hasEmail |-> TRUE, email |-> e]

Bodies(emails) == {NoBooking, NoEmail} \cup {WithEmail(e) : e \in emails}

SampleEmails == {<<>>, <<"a", "@", "a">>, <<"a", " ", "@", "a", ".", "a">>,
                 <<"a", "@", "a", ".", "a">>, <<".", "@", "a", ".", "a">>}

\* !booking || !booking.email
MissingBookingData(body) ==
    ~body.hasBooking \/ ~body.hasEmail \/ body.email = <<>>

----------------------------------------------------------------------------
(* Error values *)
NoCode == "undefined"
Codes == {NoCode, "ETIMEDOUT", "EAUTH", "ECONNECTION", "ENOTFOUND", "ESOCKET"}

TimeoutText == <<"t", "i", "m", "e", "o", "u", "t">>
Messages == {<<>>,
             TimeoutText,
             <<"C", "o", "n", "n", " ", "t", "i", "m", "e", "o", "u", "t">>,
             <<"T", "i", "m", "e", "o", "u", "t">>,
             <<"b", "a", "d">>}

ErrorObject(hasMessage, message, code) ==
    [defined |-> TRUE, hasMessage |-> hasMessage, message |-> message, code |-> code]

\* let lastError;
UndefinedError == [defined |-> FALSE, hasMessage |-> FALSE, message |-> <<>>, code |-> NoCode]

ErrorValues ==
    {ErrorObject(TRUE, m, c) : m \in Messages, c \in Codes}
        \cup {ErrorObject(FALSE, <<>>, c) : c \in Codes}

AuthError == ErrorObject(TRUE, <<"b", "a", "d">>, "EAUTH")
TimeoutError == ErrorObject(TRUE, TimeoutText, "ETIMEDOUT")
FewErrors == {AuthError, TimeoutError}

\* TypeError: Cannot read properties of undefined (reading 'sendMail')
NoTransporterError == ErrorObject(TRUE, <<"T", "y", "p", "e", "E", "r", "r">>, NoCode)

----------------------------------------------------------------------------
(* The handler's local state *)
NoOutcome == [tag |-> "none", messageId |-> 0, error |-> UndefinedError]
Returned(id) == [tag |-> "returned", messageId |-> id, error |-> UndefinedError]
Thrown(error) == [tag |-> "thrown", messageId |-> 0, error |-> error]

Text(kind, text, raw) == [kind |-> kind, text |-> text, raw |-> raw]
NoText == Text("none", "", <<>>)
Fixed(text) == Text("fixed", text, <<>>)
\* error.message as a JSON value: an absent message leaves the field out
Raw(error) == IF error.hasMessage THEN Text("raw", "", error.message) ELSE NoText

\* by: "handler" for the route's own res.json, "middleware" for the error
\* handling middleware at the end of the file
NoResponse ==
    [sent |-> FALSE, by |-> "none", delivered |-> FALSE, status |-> 0,
     hasSuccess |-> FALSE, success |-> FALSE,
     error |-> NoText, code |-> NoCode, messageId |-> 0, recipient |-> <<>>]

Fresh ==
    [kind |-> "none", body |-> NoBooking, pc |-> "idle",
     maxRetries |-> 0, attempt |-> 0, lastError |-> UndefinedError,
     calls |-> 0, sleeps |-> <<>>, history |-> <<>>, outcome |-> NoOutcome,
     response |-> NoResponse, due |-> 0, timeLeft |-> Off, socket |-> "open"]

\* res.status(status).json({...}): the client receives it only over a live socket
Respond(q, status, success, error, code, messageId, recipient) ==
    [q EXCEPT !.pc = "responded",
              !.response = [sent |-> TRUE, by |-> "handler",
                            delivered |-> (q.socket = "open"),
                            status |-> status,
                            hasSuccess |-> TRUE, success |-> success,
                            error |-> error, code |-> code,
                            messageId |-> messageId, recipient |-> recipient]]

\* a rejection of the async handler's promise.  The router forwards it to the
\* error handling middleware (res.status(500).json({error: 'Internal server
\* error', message: ...})) or leaves it unhandled: nothing is sent, and no
\* 'unhandledRejection' listener is registered, so node warns or ends the
\* process
Unhandled(q, rt) ==
    IF rt = "forwarded"
    THEN [q EXCEPT !.pc = "responded",
                   !.response = [NoResponse EXCEPT !.sent = TRUE,
                                                   !.by = "middleware",
                                                   !.delivered = (q.socket = "open"),
                                                   !.status = 500,
                                                   !.error = Fixed("Internal server error")]]
    ELSE IF rt = "fatal"
    THEN [q EXCEPT !.pc = "fatal"]
    ELSE [q EXCEPT !.pc = "unhandled"]

----------------------------------------------------------------------------
(* sendEmailWithRetry *)
RECURSIVE Pow(_, _)
Pow(b, e) == IF e = 0 THEN 1 ELSE b * Pow(b, e - 1)

DelayZeroIndexed(attempt) == Pow(2, attempt - 1) * BackoffUnit

\* const delay = Math.pow(2, attempt) * 1000;
Delay(attempt) == Pow(2, attempt) * BackoffUnit

ShouldRetryUnlessAuth(attempt, maxRetries, error) ==
    attempt < maxRetries /\ error.code # "EAUTH"

\* if (attempt < maxRetries), inside catch (error): the error is in scope and
\* is not consulted
ShouldRetry(attempt, maxRetries, error) == attempt < maxRetries

KeepFirstError(lastError, error) == IF lastError.defined THEN lastError ELSE error

\* lastError = error;
AssignLastError(lastError, error) == error

Failed(error, called) ==
    [ok |-> FALSE, called |-> called, messageId |-> 0, error |-> error]
Succeeded(id) ==
    [ok |-> TRUE, called |-> TRUE, messageId |-> id, error |-> UndefinedError]

\* the catch block of the loop body, then either the backoff timer or the
\* loop's exit and throw lastError
Catch(q, error, called) ==
    LET q1 == [q EXCEPT !.lastError = AssignLastError(q.lastError, error),
                        !.history = Append(@, Failed(error, called))]
    IN IF ShouldRetry(q.attempt, q.maxRetries, error)
       THEN [q1 EXCEPT !.sleeps = Append(@, Delay(q.attempt)),
                       !.pc = "sleep",
                       !.due = Delay(q.attempt)]
       ELSE [q1 EXCEPT !.attempt = @ + 1,
                       !.pc = "settled",
                       !.outcome = Thrown(q1.lastError)]

\* one pass of the loop from its test (attempt <= maxRetries) to the await:
\* transporter.sendMail is evaluated; on an undefined transporter that throws
\* synchronously into the catch block.  When the test fails the loop is left
\* and lastError is thrown.
Attempt(q, tr, d) ==
    IF q.attempt > q.maxRetries
    THEN [q EXCEPT !.pc = "settled", !.outcome = Thrown(q.lastError)]
    ELSE IF tr = 0
         THEN Catch(q, NoTransporterError, FALSE)
         ELSE [q EXCEPT !.calls = @ + 1, !.pc = "awaitSend", !.due = d]

sendEmailWithRetry(q, maxRetries, tr, d) ==
    Attempt([q EXCEPT !.maxRetries = maxRetries, !.attempt = 1,
                      !.lastError = UndefinedError], tr, d)

ReturnInfoAndLoop(q, id) ==
    [q EXCEPT !.history = Append(@, Succeeded(id)),
              !.pc = IF q.attempt < q.maxRetries THEN "sleep" ELSE "settled",
              !.due = 0,
              !.outcome = IF q.attempt < q.maxRetries THEN @ ELSE Returned(id)]

\* const info = await transporter.sendMail(mailOptions); return info;
ReturnInfo(q, id) ==
    [q EXCEPT !.history = Append(@, Succeeded(id)),
              !.pc = "settled",
              !.outcome = Returned(id)]

\* the backoff timer fires: attempt++ and the next pass of the loop
AfterSleep(q, tr, d) == Attempt([q EXCEPT !.attempt = @ + 1], tr, d)

----------------------------------------------------------------------------
(* The error mapping of POST /send-confirmation (retrying server) *)
\* error.message.includes('timeout') || error.code === 'ETIMEDOUT'
IsTimeout(error) ==
    Includes(error.message, TimeoutText) \/ error.code = "ETIMEDOUT"

statusCodeCodeFirst(error) ==
    IF error.code \in {"EAUTH", "ECONNECTION", "ENOTFOUND"} THEN 500
    ELSE IF IsTimeout(error) THEN 504
    ELSE 500

statusCode(error) == IF IsTimeout(error) THEN 504 ELSE 500

errorMessage(error) ==
    IF IsTimeout(error)
    THEN Fixed("Connection to Gmail timed out. Please try again.")
    ELSE IF error.code = "EAUTH"
    THEN Fixed("Email authentication failed. Check your Gmail App Password on Render.")
    ELSE IF error.code = "ECONNECTION"
    THEN Fixed("Cannot connect to Gmail servers. Check network or firewall settings.")
    ELSE IF error.code = "ENOTFOUND"
    THEN Fixed("Cannot resolve Gmail server. Network issue.")
    ELSE Raw(error)

\* catch (error) { ... } of the route: error.message.includes is a TypeError
\* when error.message is undefined, thrown from inside the catch block
ConfirmationCatch(q, error, rt) ==
    IF ~error.hasMessage
    THEN Unhandled(q, rt)
    ELSE Respond(q, statusCode(error), FALSE, errorMessage(error), error.code, 0, <<>>)

ConfirmationSuccessNoRecipient(q, id) ==
    Respond(q, 200, TRUE, NoText, NoCode, id, <<>>)

\* the success path: res.json({success: true, messageId: info.messageId,
\* recipient: booking.email, ...})
ConfirmationSuccess(q, id) ==
    Respond(q, 200, TRUE, NoText, NoCode, id, q.body.email)

ValidateNoFormat(body) ==
    IF MissingBookingData(body) THEN "missing" ELSE "ok"

\* the two validation steps, in order
Validate(body) ==
    IF MissingBookingData(body) THEN "missing"
    ELSE IF ~EmailRegexTest(body.email) THEN "invalid"
    ELSE "ok"

Reject400(q, v) ==
    Respond(q, 400, FALSE,
            IF v = "missing" THEN Fixed("Missing required booking data")
                             ELSE Fixed("Invalid email address"),
            NoCode, 0, <<>>)

----------------------------------------------------------------------------
(* Time: the socket's idle timer set by req.setTimeout(45000) *)
CanComplete(q) == q.timeLeft = Off \/ q.due <= q.timeLeft

Elapse(q) ==
    [q EXCEPT !.timeLeft = IF @ = Off THEN Off ELSE @ - q.due, !.due = 0]

SendDurations == {FastSend, connectionTimeout, socketTimeout}

----------------------------------------------------------------------------
(* Actions of the retrying server *)
Set(r, q) == req' = [req EXCEPT ![r] = q]

\* the node process runs: no unhandled rejection has ended it
ProcessUp == \A r \in DOMAIN req : req[r].pc # "fatal"

\* app.listen has been called: by startServer() when the file is the main
\* module, by the requiring code otherwise
Listening == mode = "imported" \/ transporter # 0

\* initializeTransporter(): transporter = nodemailer.createTransport({...});
\* the handle is named by the number of handles created so far
initializeTransporter(count) == count + 1

NeedsInitAlways(tr) == TRUE

\* if (!transporter)
NeedsInit(tr) == tr = 0

\* startServer(): initializeTransporter(), then app.listen(...).  It is called
\* once, while the file is loaded as the main module, and is not exported
StartServer ==
    /\ ProcessUp
    /\ build = "part_000"
    /\ mode = "main"
    /\ ~Listening
    /\ transporter' = initializeTransporter(initCount)
    /\ initCount' = initCount + 1
    /\ UNCHANGED <<build, mode, envSet, runtime, req>>

\* app.post('/send-confirmation', ...) from its first line to its first await
PostSendConfirmation(r, body, d) ==
    /\ ProcessUp
    /\ Listening
    /\ build = "part_000"
    /\ req[r].pc = "idle"
    /\ LET q == [req[r] EXCEPT !.kind = "post", !.body = body,
                               !.timeLeft = RequestTimeout]
           v == Validate(body)
       IN IF v # "ok"
          THEN /\ Set(r, Reject400(q, v))
               /\ UNCHANGED <<transporter, initCount>>
          ELSE \* if (!transporter) initializeTransporter();
               /\ transporter' = IF NeedsInit(transporter)
                                 THEN initializeTransporter(initCount) ELSE transporter
               /\ initCount' = IF NeedsInit(transporter) THEN initCount + 1 ELSE initCount
               /\ Set(r, sendEmailWithRetry(q, PostMaxRetries, transporter', d))
    /\ UNCHANGED <<build, mode, envSet, runtime>>

\* app.get('/test', ...) from its first line to its first await
GetTest(r, d) ==
    /\ ProcessUp
    /\ Listening
    /\ build = "part_000"
    /\ req[r].pc = "idle"
    /\ LET q == [req[r] EXCEPT !.kind = "test"]
       IN IF ~envSet
          THEN Set(r, Respond(q, 500, FALSE,
                              Fixed("Email not configured. Set EMAIL_USER and EMAIL_APP_PASSWORD on Render."),
                              NoCode, 0, <<>>))
          ELSE Set(r, sendEmailWithRetry(q, TestMaxRetries, transporter, d))
    /\ UNCHANGED <<build, mode, envSet, runtime, transporter, initCount>>

\* the promise of transporter.sendMail resolves with info
SendMailResolves(r, id) ==
    /\ ProcessUp
    /\ req[r].pc = "awaitSend"
    /\ CanComplete(req[r])
    /\ Set(r, ReturnInfo(Elapse(req[r]), id))
    /\ UNCHANGED <<build, mode, envSet, runtime, transporter, initCount>>

\* the promise of transporter.sendMail rejects with error
SendMailRejects(r, error) ==
    /\ ProcessUp
    /\ req[r].pc = "awaitSend"
    /\ CanComplete(req[r])
    /\ Set(r, Catch(Elapse(req[r]), error, TRUE))
    /\ UNCHANGED <<build, mode, envSet, runtime, transporter, initCount>>

\* setTimeout(resolve, delay) fires
BackoffElapsed(r, d) ==
    /\ ProcessUp
    /\ req[r].pc = "sleep"
    /\ CanComplete(req[r])
    /\ Set(r, AfterSleep(Elapse(req[r]), transporter, d))
    /\ UNCHANGED <<build, mode, envSet, runtime, transporter, initCount>>

\* the socket's idle timer fires while the handler awaits.  No 'timeout'
\* listener is registered on the request, the response or the server, so the
\* socket is destroyed; nothing in the handler observes it.
SocketTimeout(r) ==
    /\ ProcessUp
    /\ req[r].pc \in {"awaitSend", "sleep"}
    /\ req[r].socket = "open"
    /\ req[r].timeLeft # Off
    /\ req[r].due >= req[r].timeLeft
    /\ Set(r, [req[r] EXCEPT !.socket = "destroyed",
                             !.due = @ - req[r].timeLeft,
                             !.timeLeft = Off])
    /\ UNCHANGED <<build, mode, envSet, runtime, transporter, initCount>>

\* POST /send-confirmation resumes after await sendEmailWithRetry(mailOptions, 2)
ConfirmationResumes(r) ==
    /\ ProcessUp
    /\ req[r].pc = "settled"
    /\ req[r].kind = "post"
    /\ IF req[r].outcome.tag = "returned"
       THEN Set(r, ConfirmationSuccess(req[r], req[r].outcome.messageId))
       ELSE Set(r, ConfirmationCatch(req[r], req[r].outcome.error, runtime))
    /\ UNCHANGED <<build, mode, envSet, runtime, transporter, initCount>>

\* GET /test resumes after await sendEmailWithRetry(mailOptions, 1)
TestResumes(r) ==
    /\ ProcessUp
    /\ req[r].pc = "settled"
    /\ req[r].kind = "test"
    /\ IF req[r].outcome.tag = "returned"
       THEN Set(r, Respond(req[r], 200, TRUE, NoText, NoCode,
                           req[r].outcome.messageId, <<>>))
       ELSE Set(r, Respond(req[r], 500, FALSE, Raw(req[r].outcome.error),
                           NoCode, 0, <<>>))
    /\ UNCHANGED <<build, mode, envSet, runtime, transporter, initCount>>

----------------------------------------------------------------------------
(* Actions of the earlier server: no retry, no request timeout, the         *)
(* transporter is created when the module is loaded                         *)
PostSendConfirmationV1(r, body, d) ==
    /\ ProcessUp
    /\ build = "server.js"
    /\ req[r].pc = "idle"
    /\ LET q == [req[r] EXCEPT !.kind = "post", !.body = body]
           v == Validate(body)
       IN IF v # "ok"
          THEN Set(r, Reject400(q, v))
          ELSE Set(r, [q EXCEPT !.calls = @ + 1, !.pc = "awaitDirect", !.due = d])
    /\ UNCHANGED <<build, mode, envSet, runtime, transporter, initCount>>

GetTestV1(r, d) ==
    /\ ProcessUp
    /\ build = "server.js"
    /\ req[r].pc = "idle"
    /\ LET q == [req[r] EXCEPT !.kind = "test"]
       IN IF ~envSet
          THEN Set(r, Respond(q, 500, FALSE,
                              Fixed("Email not configured. Set EMAIL_USER and EMAIL_APP_PASSWORD on Render."),
                              NoCode, 0, <<>>))
          ELSE Set(r, [q EXCEPT !.calls = @ + 1, !.pc = "awaitDirect", !.due = d])
    /\ UNCHANGED <<build, mode, envSet, runtime, transporter, initCount>>

\* await transporter.sendMail(mailOptions) resolves: the success response
DirectResolves(r, id) ==
    /\ ProcessUp
    /\ req[r].pc = "awaitDirect"
    /\ LET q == [req[r] EXCEPT !.history = Append(@, Succeeded(id)),
                               !.outcome = Returned(id), !.due = 0]
       IN IF q.kind = "post"
          THEN Set(r, ConfirmationSuccess(q, id))
          ELSE Set(r, Respond(q, 200, TRUE, NoText, NoCode, 0, <<>>))
    /\ UNCHANGED <<build, mode, envSet, runtime, transporter, initCount>>

\* await transporter.sendMail(mailOptions) rejects: res.status(500).json({
\* success: false, error: error.message, ...})
DirectRejects(r, error) ==
    /\ ProcessUp
    /\ req[r].pc = "awaitDirect"
    /\ LET q == [req[r] EXCEPT !.history = Append(@, Failed(error, TRUE)),
                               !.outcome = Thrown(error), !.due = 0]
       IN Set(r, Respond(q, 500, FALSE, Raw(error), NoCode, 0, <<>>))
    /\ UNCHANGED <<build, mode, envSet, runtime, transporter, initCount>>

----------------------------------------------------------------------------
(* The connection ends and the slot takes the next request *)
NextRequest(r) ==
    /\ ProcessUp
    /\ req[r].pc \in {"responded", "unhandled"}
    /\ Set(r, Fresh)
    /\ UNCHANGED <<build, mode, envSet, runtime, transporter, initCount>>

(* sendEmailWithRetry called on its own with maxRetries = n *)
CallSendEmailWithRetry(r, n, d) ==
    /\ ProcessUp
    /\ req[r].pc = "idle"
    /\ Set(r, sendEmailWithRetry([req[r] EXCEPT !.kind = "direct"], n, transporter, d))
    /\ UNCHANGED <<build, mode, envSet, runtime, transporter, initCount>>

----------------------------------------------------------------------------
(* Specifications *)
Idle(r) == req[r].pc = "idle"

Single == {1}
Pair == {1, 2}
MessageIds == 1..MaxMessageId

\* nodemailer.createTransport runs when server.js is loaded and in
\* startServer() of the retrying server
LoadedTransporter(b, m) == IF b = "server.js" \/ m = "main" THEN 1 ELSE 0

Runtimes == {"forwarded", "unhandled", "fatal"}

InitOn(slots) ==
    /\ build \in {"part_000", "server.js"}
    /\ mode \in {"main", "imported"}
    /\ envSet \in BOOLEAN
    /\ runtime \in Runtimes
    /\ transporter = LoadedTransporter(build, mode)
    /\ initCount = LoadedTransporter(build, mode)
    /\ req = [r \in slots |-> Fresh]

Init == InitOn(Single)

\* one request at a time, every error value and every duration
Next ==
    \/ \E r \in DOMAIN req, body \in Bodies(SampleEmails), d \in SendDurations :
           PostSendConfirmation(r, body, d)
    \/ \E r \in DOMAIN req, d \in SendDurations : GetTest(r, d)
    \/ \E r \in DOMAIN req, id \in MessageIds : SendMailResolves(r, id)
    \/ \E r \in DOMAIN req, error \in ErrorValues : SendMailRejects(r, error)
    \/ \E r \in DOMAIN req, d \in SendDurations : BackoffElapsed(r, d)
    \/ \E r \in DOMAIN req : SocketTimeout(r)
    \/ \E r \in DOMAIN req : ConfirmationResumes(r)
    \/ \E r \in DOMAIN req : TestResumes(r)
    \/ \E r \in DOMAIN req, body \in Bodies(SampleEmails), d \in SendDurations :
           PostSendConfirmationV1(r, body, d)
    \/ \E r \in DOMAIN req, d \in SendDurations : GetTestV1(r, d)
    \/ \E r \in DOMAIN req, id \in MessageIds : DirectResolves(r, id)
    \/ \E r \in DOMAIN req, error \in ErrorValues : DirectRejects(r, error)
    \/ \E r \in DOMAIN req : NextRequest(r)

Spec == Init /\ [][Next]_vars

\* one request at a time, every booking.email up to MaxEmailLen characters
InitValidation == InitOn(Single) /\ envSet = TRUE /\ runtime = "unhandled"

NextValidation ==
    \/ \E r \in DOMAIN req, body \in {NoBooking, NoEmail} :
           PostSendConfirmation(r, body, FastSend)
    \/ \E r \in DOMAIN req : Idle(r) /\ \E k \in 0..MaxEmailLen : \E e \in Strings(k) :
           PostSendConfirmation(r, WithEmail(e), FastSend)
    \/ \E r \in DOMAIN req, id \in MessageIds : SendMailResolves(r, id)
    \/ \E r \in DOMAIN req, error \in FewErrors : SendMailRejects(r, error)
    \/ \E r \in DOMAIN req : BackoffElapsed(r, FastSend)
    \/ \E r \in DOMAIN req : ConfirmationResumes(r)
    \/ \E r \in DOMAIN req, body \in {NoBooking, NoEmail} :
           PostSendConfirmationV1(r, body, FastSend)
    \/ \E r \in DOMAIN req : Idle(r) /\ \E k \in 0..MaxEmailLen : \E e \in Strings(k) :
           PostSendConfirmationV1(r, WithEmail(e), FastSend)
    \/ \E r \in DOMAIN req, id \in MessageIds : DirectResolves(r, id)
    \/ \E r \in DOMAIN req, error \in FewErrors : DirectRejects(r, error)

SpecValidation == InitValidation /\ [][NextValidation]_vars

\* two runs of sendEmailWithRetry side by side, each with its own maxRetries
\* and its own sequence of transport results
InitRetry ==
    /\ build = "part_000"
    /\ mode = "main"
    /\ envSet = TRUE
    /\ runtime = "unhandled"
    /\ transporter = 1
    /\ initCount = 1
    /\ req = [r \in Pair |-> Fresh]

NextRetry ==
    \/ \E r \in DOMAIN req, n \in 1..MaxAttempts : CallSendEmailWithRetry(r, n, FastSend)
    \/ \E r \in DOMAIN req, id \in MessageIds : SendMailResolves(r, id)
    \/ \E r \in DOMAIN req, error \in FewErrors : SendMailRejects(r, error)
    \/ \E r \in DOMAIN req : BackoffElapsed(r, FastSend)

SpecRetry == InitRetry /\ [][NextRetry]_vars

\* NumReqs requests to POST /send-confirmation in flight at once in one process
\* of the retrying server, from before startServer() on
ConcSlots == 1..NumReqs
ConcBodies == {NoBooking, WithEmail(<<"a", "@", "a">>),
               WithEmail(<<"a", "@", "a", ".", "a">>)}
ConcIds == {1}
ConcErrors == FewErrors \cup {ErrorObject(FALSE, <<>>, "EAUTH")}

InitConc ==
    /\ build = "part_000"
    /\ mode \in {"main", "imported"}
    /\ envSet = TRUE
    /\ runtime \in Runtimes
    /\ transporter = 0
    /\ initCount = 0
    /\ req = [r \in ConcSlots |-> Fresh]

NextConc ==
    \/ StartServer
    \/ \E r \in DOMAIN req, body \in ConcBodies : PostSendConfirmation(r, body, FastSend)
    \/ \E r \in DOMAIN req, id \in ConcIds : SendMailResolves(r, id)
    \/ \E r \in DOMAIN req, error \in ConcErrors : SendMailRejects(r, error)
    \/ \E r \in DOMAIN req : BackoffElapsed(r, FastSend)
    \/ \E r \in DOMAIN req : ConfirmationResumes(r)
    \/ \E r \in DOMAIN req : NextRequest(r)

SpecConc == InitConc /\ [][NextConc]_vars

----------------------------------------------------------------------------
(* Vocabulary of the properties *)
Slots == DOMAIN req
Settled(q) == q.pc = "settled"
InRetry(q) == q.maxRetries >= 1
Last(h) == h[Len(h)]
\* every attempt so far was a call of the transport that failed
AllTransportFailures(h) == \A i \in 1..Len(h) : ~h[i].ok /\ h[i].called
SamePattern(h1, h2) ==
    /\ Len(h1) = Len(h2)
    /\ \A i \in 1..Len(h1) : h1[i].ok = h2[i].ok /\ h1[i].called = h2[i].called
\* the backoff schedule after j failed attempts: 2s, 4s, ...
Backoffs(j) == [i \in 1..j |-> BackoffUnit * Pow(2, i)]

----------------------------------------------------------------------------
\* C1: when the transport fails on attempts 1..k-1 and succeeds on attempt k
\* (k <= maxRetries), sendEmailWithRetry returns the info of attempt k after
\* exactly k sendMail calls and k-1 backoff sleeps, and once it has returned
\* the run makes no further sendMail call and starts no further sleep.
C1_SuccessAtK ==
    /\ [](\A r \in Slots :
            (InRetry(req[r]) /\ req[r].outcome.tag = "returned") =>
                LET k == Len(req[r].history)
                IN /\ 1 <= k /\ k <= req[r].maxRetries
                   /\ req[r].history[k].ok
                   /\ \A i \in 1..(k - 1) : ~req[r].history[i].ok
                   /\ req[r].outcome.messageId = req[r].history[k].messageId
                   /\ req[r].calls = k
                   /\ req[r].sleeps = Backoffs(k - 1))
    /\ [][\A r \in Slots :
            (req[r].outcome.tag = "returned" /\ req'[r].pc # "idle") =>
                /\ req'[r].calls = req[r].calls
                /\ req'[r].sleeps = req[r].sleeps
                /\ req'[r].outcome = req[r].outcome]_vars

\* Scenario A: two failures, success on attempt 3 of 3, sleeps of 2s and 4s
C1_Witness ==
    \E r \in Slots :
        /\ req[r].outcome.tag = "returned"
        /\ req[r].maxRetries = 3
        /\ req[r].calls = 3
        /\ req[r].sleeps = <<2000, 4000>>

C3_SingleAttempt ==
    \A r \in Slots :
        (req[r].maxRetries = 1 /\ Settled(req[r])) =>
            /\ req[r].calls = 1
            /\ req[r].sleeps = <<>>

\* what does hold with maxRetries = 1: one attempt, at most one call of the
\* transport (exactly one when the transporter exists), no sleep
SingleAttemptWithTransporter ==
    \A r \in Slots :
        (req[r].maxRetries = 1 /\ Settled(req[r])) =>
            /\ Len(req[r].history) = 1
            /\ req[r].calls = (IF req[r].history[1].called THEN 1 ELSE 0)
            /\ req[r].sleeps = <<>>

----------------------------------------------------------------------------
(* The classes of the error mapping, first match first *)
Finished(q) == q.pc \in {"responded", "unhandled", "fatal"}
FailedPost(q) == q.kind = "post" /\ q.outcome.tag = "thrown" /\ Finished(q)
TimeoutClass(e) ==
    (e.hasMessage /\ Includes(e.message, TimeoutText)) \/ e.code = "ETIMEDOUT"
ExpectedStatus(e) == IF TimeoutClass(e) THEN 504 ELSE 500
ExpectedKind(e) ==
    IF TimeoutClass(e) THEN "timed out"
    ELSE IF e.code = "EAUTH" THEN "authentication failed"
    ELSE IF e.code = "ECONNECTION" THEN "cannot connect"
    ELSE IF e.code = "ENOTFOUND" THEN "cannot resolve"
    ELSE "raw"
\* the kind of message a response carries
MessageKind(resp, e) ==
    IF resp.error = Fixed("Connection to Gmail timed out. Please try again.")
    THEN "timed out"
    ELSE IF resp.error = Fixed("Email authentication failed. Check your Gmail App Password on Render.")
    THEN "authentication failed"
    ELSE IF resp.error = Fixed("Cannot connect to Gmail servers. Check network or firewall settings.")
    THEN "cannot connect"
    ELSE IF resp.error = Fixed("Cannot resolve Gmail server. Network issue.")
    THEN "cannot resolve"
    ELSE IF resp.error = Raw(e) /\ e.hasMessage THEN "raw"
    ELSE "other"

\* C4: after delivery fails in POST /send-confirmation the final error is
\* answered by its class: timeout 504 "timed out", EAUTH 500 "authentication
\* failed", ECONNECTION 500 "cannot connect", ENOTFOUND 500 "cannot resolve",
\* anything else 500 with the raw error text.
C4_ErrorMapping ==
    \A r \in Slots :
        FailedPost(req[r]) =>
            LET e == req[r].outcome.error
            IN /\ req[r].response.sent
               /\ req[r].response.status = ExpectedStatus(e)
               /\ MessageKind(req[r].response, e) = ExpectedKind(e)

\* what does hold: the mapping of the retrying server on errors that carry a
\* message
ErrorMappingOnMessages ==
    \A r \in Slots :
        (FailedPost(req[r]) /\ build = "part_000" /\ req[r].outcome.error.hasMessage) =>
            LET e == req[r].outcome.error
            IN /\ req[r].response.sent
               /\ req[r].response.by = "handler"
               /\ req[r].response.status = ExpectedStatus(e)
               /\ MessageKind(req[r].response, e) = ExpectedKind(e)
               /\ req[r].response.code = e.code

\* C5: every path of a POST /send-confirmation request ends with the handler
\* sending a structured response (a success flag and a status), for every
\* body and every failure value of the transport; no failure escapes the
\* handler.
C5_AlwaysResponds ==
    \A r \in Slots :
        (req[r].kind = "post" /\ Finished(req[r])) =>
            /\ req[r].pc = "responded"
            /\ req[r].response.sent
            /\ req[r].response.by = "handler"
            /\ req[r].response.hasSuccess
            /\ req[r].response.status \in {200, 400, 500, 504}

\* C6: a POST /send-confirmation request whose booking is missing, whose
\* booking.email is missing or empty, or whose booking.email does not match
\* the address pattern is answered 400 with success = false, and the transport
\* is never called and no backoff sleep is started for it.
C6_InvalidRejected ==
    \A r \in Slots :
        (/\ req[r].kind = "post"
         /\ \/ MissingBookingData(req[r].body)
            \/ ~EmailRegexTest(req[r].body.email)) =>
            /\ req[r].pc = "responded"
            /\ req[r].response.sent
            /\ req[r].response.status = 400
            /\ req[r].response.hasSuccess /\ ~req[r].response.success
            /\ req[r].calls = 0
            /\ req[r].history = <<>>
            /\ req[r].sleeps = <<>>

\* an address without a dot after the "@" is rejected
C6_Witness ==
    \E r \in Slots :
        /\ req[r].kind = "post"
        /\ req[r].body = WithEmail(<<"a", "@", "a">>)
        /\ req[r].response.status = 400
        /\ req[r].calls = 0

\* C7: when the 45 s request timeout elapses while the retry sequence is still
\* running, the request makes no further transport call and starts no further
\* sleep, and a timeout-class (504) response reaches the client.
C7_TimeoutAbandons ==
    /\ [][\A r \in Slots :
            (req[r].socket = "destroyed" /\ req'[r].pc # "idle") =>
                /\ req'[r].calls = req[r].calls
                /\ req'[r].sleeps = req[r].sleeps]_vars
    /\ [](\A r \in Slots :
            (req[r].socket = "destroyed" /\ Finished(req[r])) =>
                /\ req[r].response.delivered
                /\ req[r].response.status = 504)

\* C8: when delivery succeeds for a valid POST /send-confirmation request the
\* handler answers 200 with success = true, the messageId of the transport
\* call that succeeded and recipient = booking.email, and sets no error or
\* code field.
C8_SuccessResponse ==
    \A r \in Slots :
        (req[r].kind = "post" /\ req[r].outcome.tag = "returned" /\ Finished(req[r])) =>
            /\ Validate(req[r].body) = "ok"
            /\ req[r].pc = "responded"
            /\ req[r].response.sent
            /\ req[r].response.by = "handler"
            /\ req[r].response.status = 200
            /\ req[r].response.hasSuccess /\ req[r].response.success
            /\ Last(req[r].history).ok
            /\ req[r].response.messageId = Last(req[r].history).messageId
            /\ req[r].response.recipient = req[r].body.email
            /\ req[r].response.error = NoText
            /\ req[r].response.code = NoCode

\* success on the second attempt, answered with the second call's messageId
C8_Witness ==
    \E r \in Slots :
        /\ req[r].kind = "post"
        /\ req[r].pc = "responded"
        /\ req[r].response.status = 200
        /\ Len(req[r].history) = 2
        /\ req[r].response.messageId = 2
        /\ req[r].response.recipient = <<"a", "@", "a", ".", "a">>

\* C9: two runs of sendEmailWithRetry with the same maxRetries whose transport
\* results so far agree in which attempts failed, whatever the errors were,
\* have started the same backoff sleeps and have both ended or both not
\* ended; when both have ended they made the same number of transport calls
\* and ended the same way.
C9_ClassBlindRetry ==
    \A r1 \in Slots, r2 \in Slots :
        (/\ InRetry(req[r1]) /\ InRetry(req[r2])
         /\ req[r1].maxRetries = req[r2].maxRetries
         /\ SamePattern(req[r1].history, req[r2].history)) =>
            /\ req[r1].sleeps = req[r2].sleeps
            /\ Settled(req[r1]) <=> Settled(req[r2])
            /\ (Settled(req[r1]) /\ Settled(req[r2])) =>
                    /\ req[r1].calls = req[r2].calls
                    /\ req[r1].outcome.tag = req[r2].outcome.tag

\* all authentication errors beside all timeouts
C9_Witness ==
    \E r1 \in Slots, r2 \in Slots :
        /\ Settled(req[r1]) /\ Settled(req[r2])
        /\ req[r1].maxRetries = 2 /\ req[r2].maxRetries = 2
        /\ Len(req[r1].history) = 2 /\ Len(req[r2].history) = 2
        /\ \A i \in 1..2 : /\ ~req[r1].history[i].ok
                           /\ req[r1].history[i].error = AuthError
                           /\ ~req[r2].history[i].ok
                           /\ req[r2].history[i].error = TimeoutError
        /\ req[r1].calls = 2 /\ req[r2].calls = 2

\* C10: when all n attempts fail, sendEmailWithRetry throws exactly the error
\* of the n-th attempt, unchanged.
C10_LastErrorThrown ==
    \A r \in Slots :
        (/\ InRetry(req[r]) /\ Settled(req[r])
         /\ \A i \in 1..Len(req[r].history) : ~req[r].history[i].ok) =>
            /\ Len(req[r].history) = req[r].maxRetries
            /\ req[r].outcome = Thrown(Last(req[r].history).error)

\* the first and the last attempt failed with different errors
C10_Witness ==
    \E r \in Slots :
        /\ Settled(req[r])
        /\ req[r].outcome.tag = "thrown"
        /\ Len(req[r].history) >= 2
        /\ req[r].history[1].error # Last(req[r].history).error
        /\ req[r].outcome.error = Last(req[r].history).error

----------------------------------------------------------------------------
(* Concurrent requests *)
\* the handler of the request is suspended on an await
InFlight(q) == q.kind = "post" /\ q.pc \in {"awaitSend", "sleep", "settled"}

\* the step that resumes request r: its transport call settles, its backoff
\* timer fires, or the route continues after sendEmailWithRetry
OwnStep(r) ==
    \/ \E id \in ConcIds : SendMailResolves(r, id)
    \/ \E error \in ConcErrors : SendMailRejects(r, error)
    \/ BackoffElapsed(r, FastSend)
    \/ ConfirmationResumes(r)

\* a suspended request can always be resumed, whatever the others are doing
NeverBlocked == \A r \in Slots : InFlight(req[r]) => ENABLED OwnStep(r)

\* two finished requests with the same body and the same transport results
\* ended the same way
OwnResultsDecide ==
    \A r1 \in Slots, r2 \in Slots :
        (/\ req[r1].kind = "post" /\ req[r2].kind = "post"
         /\ Finished(req[r1]) /\ Finished(req[r2])
         /\ req[r1].body = req[r2].body
         /\ req[r1].history = req[r2].history) =>
            /\ req[r1].pc = req[r2].pc
            /\ req[r1].response = req[r2].response
            /\ req[r1].sleeps = req[r2].sleeps
            /\ req[r1].calls = req[r2].calls

\* C11: with several POST /send-confirmation requests in flight, a request
\* that is in a backoff sleep or waits for a transport call suspends only
\* itself: every other request in flight can still take its next step and
\* complete, and how a request ends depends only on its own body and its own
\* transport results, not on the interleaving with the others.
C11_RequestsIndependent == NeverBlocked /\ OwnResultsDecide

\* what does hold: requests are independent as long as no rejection that
\* escaped a handler ends the process
IndependentWhileProcessUp == ProcessUp => C11_RequestsIndependent

\* one request is in its backoff sleep when the process ends under another
\* request whose error had no message
SleeperLost ==
    \E r1 \in Slots, r2 \in Slots :
        /\ req[r1].pc = "fatal"
        /\ req[r2].pc = "sleep"

\* C12: the transport handle is created at most once per process and then
\* reused: whatever the interleaving of startServer and the requests to POST
\* /send-confirmation, with the module run as main or only loaded,
\* initializeTransporter runs at most once, and once the handle is set no step
\* replaces or clears it.
C12_TransporterOnce ==
    /\ [](initCount <= 1)
    /\ [][transporter # 0 => transporter' = transporter]_vars

\* the module was only loaded; the first valid request created the handle and
\* a second request in flight uses the same one
C12_Witness ==
    /\ mode = "imported"
    /\ initCount = 1
    /\ transporter = 1
    /\ \E r1 \in Slots, r2 \in Slots :
           /\ r1 # r2
           /\ InFlight(req[r1]) /\ req[r1].calls >= 1
           /\ InFlight(req[r2]) /\ req[r2].calls >= 1

\* C13: in the error mapping of POST /send-confirmation of the retrying server
\* the timeout test comes first and wins: an error whose message contains
\* 'timeout' is answered 504 with the timed-out message whatever its code,
\* and a 500 with the message of the EAUTH, ECONNECTION or ENOTFOUND class is
\* given only to errors whose message does not contain 'timeout' and whose
\* code is not ETIMEDOUT.
C13_TimeoutWins ==
    \A r \in Slots :
        (build = "part_000" /\ FailedPost(req[r])) =>
            LET e == req[r].outcome.error
                resp == req[r].response
            IN /\ (e.hasMessage /\ Includes(e.message, TimeoutText)) =>
                      /\ resp.sent
                      /\ resp.by = "handler"
                      /\ resp.status = 504
                      /\ MessageKind(resp, e) = "timed out"
                      /\ resp.code = e.code
               /\ (/\ resp.sent
                   /\ resp.status = 500
                   /\ MessageKind(resp, e) \in {"authentication failed", "cannot connect",
                                                "cannot resolve"}) =>
                      /\ ~(e.hasMessage /\ Includes(e.message, TimeoutText))
                      /\ e.code # "ETIMEDOUT"
                      /\ MessageKind(resp, e) = ExpectedKind(e)

\* an error with code EAUTH whose message contains 'timeout' was answered 504
C13_Witness ==
    \E r \in Slots :
        /\ build = "part_000"
        /\ FailedPost(req[r])
        /\ req[r].outcome.error.code = "EAUTH"
        /\ req[r].outcome.error.hasMessage
        /\ Includes(req[r].outcome.error.message, TimeoutText)
        /\ req[r].response.status = 504
        /\ MessageKind(req[r].response, req[r].outcome.error) = "timed out"

====
